---- MODULE Spec2Model ----
(***************************************************************************)
(* State-machine model of SOVRENInferenceEngine                            *)
(* (sovren_b200_engine/src/inference_engine.{h,cpp}).                      *)
(*                                                                         *)
(* The engine is one object; its operations are modelled one action per    *)
(* public method.  The build flag CUDA_AVAILABLE selects between the two   *)
(* bodies the preprocessor can produce; it is fixed at construction.       *)
(* The C allocator (malloc/free) is the environment of the host-memory     *)
(* build: it is modelled by the status of every heap block.                *)
(* Floating point arguments are modelled in tenths (0.7f is 7).            *)
(***************************************************************************)
EXTENDS Integers, Sequences, FiniteSets, TLC

(* ------------------------------ bounds -------------------------------- *)

\* number of distinct heap addresses malloc can hand out
MaxPtr == 2

\* largest request size, in bytes
MaxSize == 2

\* largest num_gpus passed to the constructor
MaxGpus == 3

\* cap on the byte counter of the accelerator build (it only ever grows there)
MaxCudaBytes == 4

\* longest prompt
MaxPrompt == 2

\* number of distinct token ids used in prompts
MaxToken == 2

\* largest max_new_tokens
MaxNew == 2

\* largest number of sequences in a batch / largest batch_size
MaxBatch == 2

\* number of batch iterations each rank runs
MaxIter == 3

(* ------------------------- program constants -------------------------- *)

\* ModelConfig::vocab_size
vocab_size == 152064

\* ModelConfig::max_position_embeddings
max_position_embeddings == 32768

\* the null pointer
NULL == 0

(* ------------------------------ helpers ------------------------------- *)

Ptrs == 1..MaxPtr

Sizes == 0..MaxSize

Tokens == 1..MaxToken

\* all token sequences of length 0..n
RECURSIVE SeqsUpTo(_, _)
SeqsUpTo(S, n) ==
    IF n = 0 THEN { << >> }
    ELSE LET shorter == SeqsUpTo(S, n - 1)
         IN  shorter \cup { Append(s, x) : s \in shorter, x \in S }

Prompts == SeqsUpTo(Tokens, MaxPrompt)

Batches == SeqsUpTo(Prompts, MaxBatch)

\* temperature / top_p values, in tenths
Temperatures == {0, 7}

TopPs == {9, 10}

\* std::unordered_map<void*, size_t>: a function on the set of its keys
EmptyMap == [q \in {} |-> 0]

MapInsert(m, p, v) == [q \in (DOMAIN m) \cup {p} |-> IF q = p THEN v ELSE m[q]]

MapErase(m, p) == [q \in (DOMAIN m) \ {p} |-> m[q]]

RECURSIVE SumOver(_, _)
SumOver(m, S) ==
    IF S = {} THEN 0
    ELSE LET p == CHOOSE q \in S : TRUE
         IN  m[p] + SumOver(m, S \ {p})

\* sum of the sizes recorded in a map
MapBytes(m) == SumOver(m, DOMAIN m)

(* ------------------------------- state -------------------------------- *)

VARIABLES
    cuda,                     \* CUDA_AVAILABLE of this build
    num_gpus_,                \* SOVRENInferenceEngine::num_gpus_
    total_memory_allocated_,  \* SOVRENInferenceEngine::total_memory_allocated_
    memory_map_,              \* SOVRENInferenceEngine::memory_map_
    states_,                  \* SOVRENInferenceEngine::states_
    blk,                      \* C heap: status of every block address
    destroyed,                \* the destructor has run
    call,                     \* the most recent call: arguments and results
    prevCleanup,              \* << released set >> if the previous call was cleanup()
    iter,                     \* per rank: index of the batch iteration it is in
    pc                        \* per rank: "compute" or "sync"

vars == << cuda, num_gpus_, total_memory_allocated_, memory_map_, states_,
           blk, destroyed, call, prevCleanup, iter, pc >>

engineVars == << cuda, num_gpus_, total_memory_allocated_, memory_map_, states_,
                 blk, destroyed, call, prevCleanup >>

rankVars == << iter, pc >>

\* the record of a call, with every field at its default
NoCall ==
    [ op |-> "constructor", size |-> 0, device_id |-> 0, ptr |-> NULL,
      ret_ptr |-> NULL, ok |-> TRUE, err |-> "None",
      was_outstanding |-> FALSE, released |-> {},
      input_tokens |-> << >>, output_tokens |-> << >>,
      max_new_tokens |-> 0, temperature |-> 0, top_p |-> 0,
      input_batches |-> << >>, output_batches |-> << >>,
      batch_size |-> 0, logits_size |-> 0 ]

\* the record of a call of `name`
NewCall(name) == [ NoCall EXCEPT !.op = name ]

\* prevCleanup after a call: remembers what a cleanup() released
NotePrev == IF call.op = "cleanup" THEN << call.released >> ELSE << >>

(* ---------------------------- C allocator ----------------------------- *)

\* malloc(size): a block that is not live, or NULL when the heap is exhausted
\* (malloc(0) may also return either)
malloc == {NULL} \cup { p \in Ptrs : blk[p] # "live" }

\* free(p) on every p of S: a live block is released; releasing a block that
\* is not live is a double (or invalid) free
free(b, S) ==
    [ p \in Ptrs |-> IF p \in S
                     THEN (IF b[p] = "live" THEN "freed" ELSE "double")
                     ELSE b[p] ]

(* ---------------------------- construction ---------------------------- *)

\* SOVRENInferenceEngine::SOVRENInferenceEngine(num_gpus)
Constructor(build, num_gpus) ==
    /\ cuda = build
    /\ num_gpus_ = IF build THEN num_gpus ELSE 0
    /\ total_memory_allocated_ = 0
    /\ memory_map_ = EmptyMap
    /\ states_ = << >>
    /\ blk = [p \in Ptrs |-> "unused"]
    /\ destroyed = FALSE
    /\ call = NoCall
    /\ prevCleanup = << >>

\* the set of ranks of the parallel group
Ranks == 1..(IF num_gpus_ <= 1 THEN 1 ELSE num_gpus_)

RanksIdle ==
    /\ iter = [r \in 1..MaxGpus |-> 0]
    /\ pc = [r \in 1..MaxGpus |-> "compute"]

Init ==
    /\ \E build \in BOOLEAN, num_gpus \in 1..MaxGpus : Constructor(build, num_gpus)
    /\ RanksIdle

(* ----------------------------- allocator ------------------------------ *)

\* SOVRENInferenceEngine::allocate_gpu_memory(size, device_id)
allocate_gpu_memory(size, device_id) ==
    /\ ~destroyed
    /\ IF cuda
       THEN /\ total_memory_allocated_ + size <= MaxCudaBytes
            /\ total_memory_allocated_' = total_memory_allocated_ + size
            /\ call' = [ NewCall("allocate_gpu_memory") EXCEPT
                           !.size = size, !.device_id = device_id,
                           !.ret_ptr = NULL ]
            /\ UNCHANGED << memory_map_, blk >>
       ELSE \E ptr \in malloc :
            /\ call' = [ NewCall("allocate_gpu_memory") EXCEPT
                           !.size = size, !.device_id = device_id,
                           !.ret_ptr = ptr ]
            /\ IF ptr # NULL
               THEN /\ blk' = [blk EXCEPT ![ptr] = "live"]
                    /\ total_memory_allocated_' = total_memory_allocated_ + size
                    /\ memory_map_' = MapInsert(memory_map_, ptr, size)
               ELSE UNCHANGED << blk, total_memory_allocated_, memory_map_ >>
    /\ prevCleanup' = NotePrev
    /\ UNCHANGED << cuda, num_gpus_, states_, destroyed, rankVars >>

AllocateGpuMemory ==
    \E size \in Sizes, device_id \in 0..(MaxGpus - 1) :
        allocate_gpu_memory(size, device_id)

\* SOVRENInferenceEngine::free_gpu_memory(ptr)
free_gpu_memory(ptr) ==
    /\ ~destroyed
    /\ call' = [ NewCall("free_gpu_memory") EXCEPT
                   !.ptr = ptr,
                   !.was_outstanding = (ptr \in DOMAIN memory_map_),
                   !.err = "None" ]
    /\ IF ptr = NULL \/ cuda
       THEN UNCHANGED << total_memory_allocated_, memory_map_, blk >>
       ELSE IF ptr \in DOMAIN memory_map_
            THEN /\ total_memory_allocated_' =
                        total_memory_allocated_ - memory_map_[ptr]
                 /\ memory_map_' = MapErase(memory_map_, ptr)
                 /\ blk' = free(blk, {ptr})
            ELSE UNCHANGED << total_memory_allocated_, memory_map_, blk >>
    /\ prevCleanup' = NotePrev
    /\ UNCHANGED << cuda, num_gpus_, states_, destroyed, rankVars >>

FreeGpuMemory == \E ptr \in {NULL} \cup Ptrs : free_gpu_memory(ptr)

\* cleanup() without memory_map_.clear(): the entries of the released blocks
\* stay in the map
cleanup_keeps_map(name) ==
    /\ blk' = free(blk, DOMAIN memory_map_)
    /\ memory_map_' = memory_map_
    /\ total_memory_allocated_' = 0
    /\ call' = [ NewCall(name) EXCEPT !.released = DOMAIN memory_map_ ]
    /\ prevCleanup' = NotePrev

\* the body of SOVRENInferenceEngine::cleanup(), called as `name`
cleanup(name) ==
    /\ blk' = free(blk, DOMAIN memory_map_)
    /\ memory_map_' = EmptyMap
    /\ total_memory_allocated_' = 0
    /\ call' = [ NewCall(name) EXCEPT !.released = DOMAIN memory_map_ ]
    /\ prevCleanup' = NotePrev

\* an explicit call of cleanup()
Cleanup ==
    /\ ~destroyed
    /\ cleanup("cleanup")
    /\ UNCHANGED << cuda, num_gpus_, states_, destroyed, rankVars >>

\* SOVRENInferenceEngine::~SOVRENInferenceEngine()
Destructor ==
    /\ ~destroyed
    /\ cleanup("destructor")
    /\ destroyed' = TRUE
    /\ UNCHANGED << cuda, num_gpus_, states_, rankVars >>

(* ----------------------------- generation ----------------------------- *)

\* forward_pass that takes a scratch buffer of batch_size bytes through the
\* allocator's counter and never gives it back
forward_pass_scratch_leak(input_tokens, batch_size) ==
    /\ ~destroyed
    /\ call' = [ NewCall("forward_pass") EXCEPT
                   !.input_tokens = input_tokens,
                   !.batch_size = batch_size,
                   !.logits_size = vocab_size * batch_size,
                   !.ok = TRUE ]
    /\ total_memory_allocated_' =
          IF total_memory_allocated_ + batch_size <= MaxCudaBytes
          THEN total_memory_allocated_ + batch_size
          ELSE total_memory_allocated_
    /\ prevCleanup' = NotePrev
    /\ UNCHANGED << cuda, num_gpus_, memory_map_,
                    states_, blk, destroyed, rankVars >>

\* SOVRENInferenceEngine::forward_pass(input_tokens, output_logits, batch_size)
forward_pass(input_tokens, batch_size) ==
    /\ ~destroyed
    /\ call' = [ NewCall("forward_pass") EXCEPT
                   !.input_tokens = input_tokens,
                   !.batch_size = batch_size,
                   !.logits_size = vocab_size * batch_size,
                   !.ok = TRUE ]
    /\ prevCleanup' = NotePrev
    /\ UNCHANGED << cuda, num_gpus_, total_memory_allocated_, memory_map_,
                    states_, blk, destroyed, rankVars >>

ForwardPass ==
    \E input_tokens \in Prompts, batch_size \in 0..MaxBatch :
        forward_pass(input_tokens, batch_size)

\* generate_tokens as a do-while loop: a token is appended before
\* max_new_tokens is looked at, so at least one token is generated
generate_tokens_do_while(input_tokens, max_new_tokens, temperature, top_p) ==
    /\ ~destroyed
    /\ call' = [ NewCall("generate_tokens") EXCEPT
                   !.input_tokens = input_tokens,
                   !.max_new_tokens = max_new_tokens,
                   !.temperature = temperature,
                   !.top_p = top_p,
                   !.output_tokens =
                       input_tokens \o
                       [ i \in 1..(IF max_new_tokens = 0 THEN 1 ELSE max_new_tokens)
                           |-> 1 ],
                   !.ok = TRUE ]
    /\ prevCleanup' = NotePrev
    /\ UNCHANGED << cuda, num_gpus_, total_memory_allocated_, memory_map_,
                    states_, blk, destroyed, rankVars >>

\* generate_tokens that draws every new token at random, whatever the
\* temperature
generate_tokens_sampled(input_tokens, max_new_tokens, temperature, top_p) ==
    /\ ~destroyed
    /\ \E drawn \in [ 1..max_new_tokens -> Tokens ] :
         call' = [ NewCall("generate_tokens") EXCEPT
                     !.input_tokens = input_tokens,
                     !.max_new_tokens = max_new_tokens,
                     !.temperature = temperature,
                     !.top_p = top_p,
                     !.output_tokens = input_tokens \o drawn,
                     !.ok = TRUE ]
    /\ prevCleanup' = NotePrev
    /\ UNCHANGED << cuda, num_gpus_, total_memory_allocated_, memory_map_,
                    states_, blk, destroyed, rankVars >>

\* SOVRENInferenceEngine::generate_tokens(input_tokens, output_tokens,
\*                                        max_new_tokens, temperature, top_p)
generate_tokens(input_tokens, max_new_tokens, temperature, top_p) ==
    /\ ~destroyed
    /\ call' = [ NewCall("generate_tokens") EXCEPT
                   !.input_tokens = input_tokens,
                   !.max_new_tokens = max_new_tokens,
                   !.temperature = temperature,
                   !.top_p = top_p,
                   !.output_tokens = input_tokens,
                   !.ok = TRUE ]
    /\ prevCleanup' = NotePrev
    /\ UNCHANGED << cuda, num_gpus_, total_memory_allocated_, memory_map_,
                    states_, blk, destroyed, rankVars >>

GenerateTokens ==
    \E input_tokens \in Prompts, max_new_tokens \in 0..MaxNew,
       temperature \in Temperatures, top_p \in TopPs :
        generate_tokens(input_tokens, max_new_tokens, temperature, top_p)

\* SOVRENInferenceEngine::process_batch(input_batches, output_batches)
process_batch(input_batches) ==
    /\ ~destroyed
    /\ call' = [ NewCall("process_batch") EXCEPT
                   !.input_batches = input_batches,
                   !.output_batches = input_batches,
                   !.ok = TRUE ]
    /\ prevCleanup' = NotePrev
    /\ UNCHANGED << cuda, num_gpus_, total_memory_allocated_, memory_map_,
                    states_, blk, destroyed, rankVars >>

ProcessBatch == \E input_batches \in Batches : process_batch(input_batches)

Next ==
    \/ AllocateGpuMemory
    \/ FreeGpuMemory
    \/ Cleanup
    \/ Destructor
    \/ ForwardPass
    \/ GenerateTokens
    \/ ProcessBatch

Spec == Init /\ [][Next]_vars

(* ------------------------- multi-GPU coordination --------------------- *)

\* a rank's control thread finishes the forward pass of its current batch
\* iteration and calls synchronize_gpus()
RankFinishIteration(r) ==
    /\ r \in Ranks
    /\ pc[r] = "compute"
    /\ iter[r] < MaxIter
    /\ pc' = [pc EXCEPT ![r] = "sync"]
    /\ UNCHANGED << iter, engineVars >>

\* SOVRENInferenceEngine::synchronize_gpus() on rank r: every path returns
\* true at once; the rank then starts its next batch iteration
synchronize_gpus(r) ==
    /\ r \in Ranks
    /\ pc[r] = "sync"
    /\ IF cuda
       THEN IF num_gpus_ <= 1
            THEN call' = [ NewCall("synchronize_gpus") EXCEPT !.ok = TRUE ]
            ELSE call' = [ NewCall("synchronize_gpus") EXCEPT !.ok = TRUE ]
       ELSE call' = [ NewCall("synchronize_gpus") EXCEPT !.ok = TRUE ]
    /\ pc' = [pc EXCEPT ![r] = "compute"]
    /\ iter' = [iter EXCEPT ![r] = @ + 1]
    /\ UNCHANGED << cuda, num_gpus_, total_memory_allocated_, memory_map_,
                    states_, blk, destroyed, prevCleanup >>

FinishIteration == \E r \in 1..MaxGpus : RankFinishIteration(r)

SynchronizeGpus == \E r \in 1..MaxGpus : synchronize_gpus(r)

NextRanks == FinishIteration \/ SynchronizeGpus

SpecRanks == Init /\ [][NextRanks]_vars

(* ------------------------------ properties ---------------------------- *)

GenOps == {"forward_pass", "generate_tokens", "process_batch"}

CleanupOps == {"cleanup", "destructor"}

\* C1: after cleanup() - the explicit call or the destructor's, a first run
\* or a second one - no allocation is outstanding, the byte counter is zero,
\* every allocation that was outstanding has been released, and no block is
\* ever released twice.
C1_CleanupReleasesAllOnce ==
    /\ \A p \in Ptrs : blk[p] # "double"
    /\ call.op \in CleanupOps =>
          /\ memory_map_ = EmptyMap
          /\ total_memory_allocated_ = 0
          /\ \A p \in Ptrs : blk[p] # "live"
          /\ \A p \in call.released : blk[p] = "freed"

\* the destructor's cleanup() has run right after an explicit cleanup() that
\* released outstanding allocations
C1_Witness ==
    /\ call.op = "destructor"
    /\ prevCleanup # << >>
    /\ prevCleanup[1] # {}

\* C2: free_gpu_memory erases the bookkeeping of an outstanding allocation,
\* and a free on a handle that is not outstanding is reported to the caller
\* as InvalidHandle, releases nothing and changes neither the outstanding
\* set nor the byte counter.
C2_InvalidHandleReported ==
    [][ call'.op = "free_gpu_memory" =>
          IF call'.was_outstanding
          THEN call'.ptr \notin DOMAIN memory_map_'
          ELSE /\ call'.err = "InvalidHandle"
               /\ UNCHANGED << memory_map_, total_memory_allocated_, blk >>
      ]_vars

\* The code has no ceiling field and allocate_gpu_memory reads none; the
\* ceiling of the claim is taken to admit one request of the largest size
\* and one more byte.
DeviceMemoryCeiling == MaxSize + 1

\* C3: allocate_gpu_memory rejects a request that would take the byte
\* counter above the device memory ceiling, so the counter never exceeds
\* the ceiling.
C3_CounterWithinCeiling ==
    total_memory_allocated_ <= DeviceMemoryCeiling

\* C4: generate_tokens with max_new_tokens = N returns the prompt followed
\* by exactly N new tokens (the code samples no stop token).
C4_ExactlyNNewTokens ==
    call.op = "generate_tokens" =>
        Len(call.output_tokens) = Len(call.input_tokens) + call.max_new_tokens

\* C5: generate_tokens with max_new_tokens = 0 returns, and its output holds
\* the prompt and no further token.
C5_ZeroNewTokens ==
    (call.op = "generate_tokens" /\ call.max_new_tokens = 0) =>
        /\ call.ok
        /\ call.output_tokens = call.input_tokens

\* generate_tokens has returned from a call with a non-empty prompt and
\* max_new_tokens = 0
C5_Witness ==
    /\ call.op = "generate_tokens"
    /\ call.max_new_tokens = 0
    /\ call.input_tokens # << >>

\* InferenceState of a sequence that has reached Terminated
Terminated(st) ==
    \/ st.current_length >= st.sequence_length + st.max_new_tokens
    \/ st.current_length >= max_position_embeddings

\* C6: when process_batch returns, every sequence of the batch has an
\* InferenceState that went from Prefill through Decoding to Terminated.
C6_AllSequencesTerminated ==
    call.op = "process_batch" =>
        \A i \in DOMAIN call.input_batches :
            /\ i \in DOMAIN states_
            /\ Terminated(states_[i])

\* C7: with more than one rank, no rank is in batch iteration i+1 while
\* another rank has not finished iteration i (has not reached its
\* synchronize_gpus call of iteration i).
C7_NoRankRunsAhead ==
    num_gpus_ > 1 =>
        \A r1 \in Ranks, r2 \in Ranks :
            iter[r1] > iter[r2] =>
                /\ iter[r1] = iter[r2] + 1
                /\ pc[r2] = "sync"

\* C8: two consecutive runs of generate_tokens, so from the same engine
\* state, with temperature = 0 and the same prompt, max_new_tokens and top_p
\* give the same output tokens.
C8_GreedyDeterministic ==
    [][ ( /\ call.op = "generate_tokens"
          /\ call'.op = "generate_tokens"
          /\ call.temperature = 0
          /\ call'.temperature = 0
          /\ call'.input_tokens = call.input_tokens
          /\ call'.max_new_tokens = call.max_new_tokens
          /\ call'.top_p = call.top_p )
        => call'.output_tokens = call.output_tokens
      ]_vars

\* generate_tokens has returned from a call with temperature = 0 and a
\* non-empty prompt
C8_Witness ==
    /\ call.op = "generate_tokens"
    /\ call.temperature = 0
    /\ call.max_new_tokens > 0
    /\ call.input_tokens # << >>

\* C9: in both builds the byte counter equals the sum of the sizes of the
\* outstanding allocations.
C9_CounterEqualsOutstanding ==
    total_memory_allocated_ = MapBytes(memory_map_)

\* C10: forward_pass, generate_tokens and process_batch leave the
\* outstanding allocations, the byte counter and the heap as they were.
C10_GenerationKeepsAllocator ==
    [][ call'.op \in GenOps =>
          /\ memory_map_' = memory_map_
          /\ total_memory_allocated_' = total_memory_allocated_
          /\ blk' = blk
      ]_vars

\* a generation operation has returned while allocations are outstanding
C10_Witness ==
    /\ call.op \in GenOps
    /\ memory_map_ # EmptyMap
    /\ total_memory_allocated_ > 0

====
